---- MODULE Spec2Model ----
(***************************************************************************)
(* Folder based synchronisation of ActivityWatch buckets (aw-sync/sync.rs). *)
(*                                                                         *)
(* A pass (sync_run) pulls every remote store found in the sync directory  *)
(* into the live store and then pushes the live store into this device's   *)
(* staging store.  Both directions go through sync_datastores, which       *)
(* selects the source buckets, resolves a destination bucket for each      *)
(* (get_or_create_sync_bucket) and replays the source events behind the    *)
(* destination's resume point (sync_one).                                  *)
(*                                                                         *)
(* Strings are modelled as sequences of tokens: a bucket id is a sequence  *)
(* of name tokens in which the token SF stands for the substring           *)
(* "-synced-from-"; a file of the sync directory is <<folder, file stem,   *)
(* extension>>, each a sequence of tokens (the folder is empty for a file  *)
(* that lies in the sync directory itself, the extension is empty for a    *)
(* file name without one), and a device id is one token.                   *)
(*                                                                         *)
(* The stores behind AccessMethod (aw_datastore, aw_client_rust) are not   *)
(* part of sync.rs.  They follow the AccessMethod contract of the          *)
(* specification: get_events returns the events with timestamp >= start    *)
(* newest first, and heartbeat with pulsetime 0 inserts a distinct event.  *)
(* An Option is encoded in its own type: a resume point or start of -1, a  *)
(* limit of 0 and an event id of 0 are None.                               *)
(*                                                                         *)
(* The stores: RemoteA and RemoteC are the stores of two other devices in  *)
(* the sync folder, Live is the store of this device's server, Staging its *)
(* store in the sync folder.  A store is named by its file.  Owners append *)
(* events to their buckets between passes.                                 *)
(***************************************************************************)
EXTENDS Integers, Sequences, FiniteSets, TLC

\* ------------------------------------------------------------------ bounds
MaxT == 1          \* events start and end within the instants 0..MaxT
MaxAppends == 2    \* events appended to source buckets by their owners
MaxPasses == 2     \* calls of sync_run

\* --------------------------------------------------------------- constants
SF == "-synced-from-"
Unknown == "unknown"
NoOrigin == "<absent>"      \* the data map has no "$aw.sync.origin" key
NoDid == "<none>"           \* src_did = None
LocalDid == "B"             \* info.device_id of this device
\* PulseWindow with a pulsetime that lets heartbeat merge events
PulseWindowPositive == 0 + 1
PulseWindow == 0            \* the pulsetime sync_one passes to heartbeat


\* the store files: <<folder, file stem, extension>>
RemoteA == <<<<"A">>, <<"test">>, <<"db">>>>
RemoteC == <<<<"C">>, <<"test">>, <<"db">>>>
Live == <<"live">>          \* the store behind the AwClient
\* ds_localremote: <sync_dir>/<device_id>/test.db
Staging == <<<<LocalDid>>, <<"test">>, <<"db">>>>

VARIABLES
  store,      \* store name -> (bucket id -> [hostname, origin, events])
  phase,      \* position in sync_run: idle, discover, pull, push, report, crashed
  step,       \* position in sync_datastores: select, resolve, create, merge, insert, count
  allow,      \* the bucket allow-list the passes are called with
  remotes,    \* remote stores still to pull, head first
  queue,      \* buckets_from of the running sync_datastores call
  bucketTo,   \* id of the destination bucket of the running sync_one
  events,     \* events sync_one still has to heartbeat
  passes,     \* number of passes started
  appends,    \* number of events appended by bucket owners
  created,    \* history: <<store, id>> of every bucket the engine created
  resolved,   \* history: <<source store, source id>> -> destination ids resolved
  run,        \* history of the running sync_one
  synced,     \* history: <<source store, source id>> -> source events at the last completed run
  dir,        \* the files of the sync directory
  failed,     \* history: a store call of the running pass has returned an error
  aborted     \* history: <<source store, source id>> -> events fetched by a run that failed part-way

vars == <<store, phase, step, allow, remotes, queue, bucketTo, events,
          passes, appends, created, resolved, run, synced, dir, failed, aborted>>

\* ------------------------------------------------------------ small helpers
Min(S) == CHOOSE x \in S : \A y \in S : x <= y
Max(S) == CHOOSE x \in S : \A y \in S : x >= y

RECURSIVE SetToSeqs(_)
\* every ordering of a finite set (the iteration orders of a HashMap or a directory)
SetToSeqs(S) ==
  IF S = {} THEN {<<>>}
  ELSE UNION {{<<x>> \o t : t \in SetToSeqs(S \ {x})} : x \in S}

Timestamps == 0..MaxT
Durations == 0..MaxT
Payloads == {"a", "b"}

\* e.timestamp + e.duration
EndOf(e) == e.timestamp + e.duration

\* (timestamp, duration, data) of an event, the part compared across stores
Content(e) == <<e.timestamp, e.duration, e.data>>

\* --------------------------------------------------- the AccessMethod stores
\* A stored event is [id, timestamp, duration, data]; a bucket keeps its events
\* in insertion order.  An event id of 0 is None.

RECURSIVE SortAsc(_)
\* events.sort_by(|a, b| a.timestamp.cmp(&b.timestamp)): a stable ascending sort
SortAsc(s) ==
  IF s = <<>> THEN <<>>
  ELSE LET r == SortAsc(SubSeq(s, 1, Len(s) - 1))
           e == s[Len(s)]
           k == Cardinality({i \in 1..Len(r) : r[i].timestamp <= e.timestamp})
       IN SubSeq(r, 1, k) \o <<e>> \o SubSeq(r, k + 1, Len(r))

Reverse(s) == [i \in 1..Len(s) |-> s[Len(s) + 1 - i]]

\* the events of a bucket newest first; of two events with one timestamp the
\* one inserted later comes first
NewestFirst(evs) == Reverse(SortAsc(evs))

\* get_events(bucket, start, None, limit): the events with timestamp >= start,
\* newest first, cut to limit.  start = -1 is None, limit = 0 is None.
GetEvents(evs, start, limit) ==
  LET hit == SelectSeq(NewestFirst(evs), LAMBDA e : e.timestamp >= start)
  IN IF limit = 0 \/ Len(hit) <= limit THEN hit ELSE SubSeq(hit, 1, limit)

\* get_event_count(bucket)
GetEventCount(evs) == Len(evs)

\* heartbeat(bucket, event, pulsetime): the event is merged into the most
\* recent event when it carries the same data and starts within pulsetime of
\* that event's end; with pulsetime = 0 every call inserts a distinct event.
\* The store numbers an event that comes without an id.
Heartbeat(evs, e, pulse) ==
  LET last == GetEvents(evs, -1, 1)
      merges == /\ pulse > 0
                /\ last # <<>>
                /\ last[1].data = e.data
                /\ last[1].timestamp <= e.timestamp
                /\ e.timestamp <= EndOf(last[1]) + pulse
      stored == [e EXCEPT !.id = IF e.id = 0 THEN Len(evs) + 1 ELSE e.id]
  IN IF merges
       THEN [i \in 1..Len(evs) |->
               IF evs[i] = last[1]
                 THEN [evs[i] EXCEPT !.duration =
                         Max({evs[i].duration, EndOf(e) - evs[i].timestamp})]
                 ELSE evs[i]]
       ELSE Append(evs, stored)

\* insert_events(bucket, <<e>>) by the owner of a bucket
InsertEvent(evs, e) == Append(evs, [e EXCEPT !.id = Len(evs) + 1])

\* metadata.end of a bucket: the latest end of its events, -1 (None) when empty
MetaEnd(evs) == IF evs = <<>> THEN -1 ELSE Max({EndOf(evs[i]) : i \in 1..Len(evs)})

\* get_buckets(): the buckets of a store as records with their id
GetBuckets(st) ==
  {[id |-> id, hostname |-> st[id].hostname, origin |-> st[id].origin,
    end |-> MetaEnd(st[id].events)] : id \in DOMAIN st}

\* ------------------------------------------------------------------ discovery
\* the sync_directory argument of sync_run
SyncDirectory == <<"sync">>

\* the files of the sync directory before this device's first pass
SyncDir == {RemoteA, RemoteC, <<<<"A">>, <<"notes">>, <<"txt">>>>}

\* the path of a file as a string: <sync_dir>/<folder>/<stem>.<ext>
PathString(p) ==
  SyncDirectory
    \o (IF p[1] = <<>> THEN <<>> ELSE <<"/">> \o p[1])
    \o <<"/">> \o p[2]
    \o (IF p[3] = <<>> THEN <<>> ELSE <<".">> \o p[3])

\* str::contains: sub occurs in s as a contiguous run
Contains(s, sub) ==
  \E i \in 1..(Len(s) - Len(sub) + 1) : SubSeq(s, i, i + Len(sub) - 1) = sub

\* setup_local_remote: the folder and the store file of this device exist
\* afterwards
SetupLocalRemote(files) == files \cup {Staging}

\* find_remotes: the files inside the subfolders of the sync directory
InSubfolders(files) == {p \in files : p[1] # <<>>}

\* find_remotes, path.extension().unwrap(): a file name without an extension
\* in a subfolder makes the unwrap panic
ExtensionPanics(files) == \E p \in InSubfolders(files) : p[3] = <<>>

\* find_remotes: the files with extension "db" in the subfolders
FindRemotes(files) == {p \in InSubfolders(files) : p[3] = <<"db">>}

\* find_remotes_nonlocal: the remotes whose path does not contain device_id
FindRemotesNonlocal(files, did) ==
  {p \in FindRemotes(files) : ~Contains(PathString(p), <<did>>)}

\* create_datastore: the store behind a path
CreateDatastore(p) == p

\* ------------------------------------------------------------ bucket identity
\* OrigBucketId with the split left out: the suffix is added to the whole id
OrigBucketIdWhole(id) == id

\* bucket_from.id.split("-synced-from-").next().unwrap()
OrigBucketId(id) ==
  LET at == {i \in 1..Len(id) : id[i] = SF}
  IN IF at = {} THEN id ELSE SubSeq(id, 1, Min(at) - 1)

\* data.get("$aw.sync.origin").unwrap_or(&hostname)
OriginOf(b) == IF b.origin # NoOrigin THEN b.origin ELSE b.hostname

\* NewId with the is_push branch left out: a push adds the suffix too
NewIdSuffixed(b, isPush) == OrigBucketId(b.id) \o <<SF, OriginOf(b)>>

\* new_id of get_or_create_sync_bucket
NewId(b, isPush) ==
  IF isPush THEN b.id ELSE OrigBucketId(b.id) \o <<SF, OriginOf(b)>>

\* bucket_new: the clone of bucket_from stored under new_id
BucketNew(b) == [hostname |-> b.hostname, origin |-> b.hostname, events |-> <<>>]

\* ------------------------------------------------------------- sync_datastores
\* RepairHostname with the repair left out
RepairHostnameNone(b, srcDid) == b

\* the hostname repair of the map closure
RepairHostname(b, srcDid) ==
  IF b.hostname = Unknown THEN [b EXCEPT !.hostname = srcDid] ELSE b

\* RepairPanics with the allow-list filter run before the repair
RepairPanicsRetained(bs, srcDid) ==
  srcDid = NoDid /\ \E b \in bs : b.hostname = Unknown /\ b.id \in allow

\* unwrap of src_did panics when a hostname needs repair and src_did is None
RepairPanics(bs, srcDid) == srcDid = NoDid /\ \E b \in bs : b.hostname = Unknown

\* InAllowList with the filter left out
InAllowListAny(b, al) == TRUE

\* the filter closure
InAllowList(b, al) == b.id \in al

\* buckets_from after map and filter
BucketsFrom(bs, srcDid, al) ==
  {r \in {RepairHostname(b, srcDid) : b \in bs} : InAllowList(r, al)}

\* sort_by_key(|b| b.metadata.end) of a vector collected in map order
\* IsSortedByEnd with the most recently updated bucket first
IsSortedByEndDescending(q) == \A i \in 1..Len(q) - 1 : q[i].end >= q[i + 1].end
IsSortedByEnd(q) == \A i \in 1..Len(q) - 1 : q[i].end <= q[i + 1].end
SortedByEnd(bs) == {q \in SetToSeqs(bs) : IsSortedByEnd(q)}

\* ------------------------------------------------------------------- sync_one
\* ResumeSyncAt with the duration left out of the resume point
ResumeSyncAtTimestamp(destEvs) ==
  LET recent == GetEvents(destEvs, -1, 1)
  IN IF recent = <<>> THEN -1 ELSE recent[1].timestamp

\* resume_sync_at: end of the most recent destination event, -1 for None
ResumeSyncAt(destEvs) ==
  LET recent == GetEvents(destEvs, -1, 1)
  IN IF recent = <<>> THEN -1 ELSE EndOf(recent[1])

\* StripId with the id kept
StripIdKept(e) == e

\* new_e.id = None
StripId(e) == [e EXCEPT !.id = 0]

\* EventsToSync fetching only the events after the resume point
EventsToSyncAfter(srcEvs, resume) ==
  LET got == GetEvents(srcEvs, resume + 1, 0)
  IN SortAsc([i \in 1..Len(got) |-> StripId(got[i])])

\* the events fetched from the source, ids stripped, sorted ascending
EventsToSync(srcEvs, resume) ==
  LET got == GetEvents(srcEvs, resume, 0)
  IN SortAsc([i \in 1..Len(got) |-> StripId(got[i])])

\* ------------------------------------------------------------ the state machine
Afk == <<"afk">>
Web == <<"web", SF, "C">>
Win == <<"win">>
Mail == <<"mail">>

\* the allow-lists the passes are started with (the buckets argument, the
\* same in every pass of a behaviour)
AllowLists ==
  { {}, {Afk}, {Afk, Web, Mail, Win, <<"afk", SF, "A">>} }

\* the buckets their owners append to: device A's bucket in its store in the
\* sync folder, and this device's own bucket in the live store
Owned == {<<RemoteA, Afk>>, <<Live, Win>>}

EventKinds ==
  {e \in [id : {0}, timestamp : Timestamps, duration : Durations, data : Payloads] :
     EndOf(e) <= MaxT}

NoBuckets == [id \in {} |-> 0]

\* the stores and the pass state before the first pass
InitStores ==
  /\ \E ha \in {"A", Unknown}, hw \in {LocalDid, Unknown} :
       store =
         [s \in {RemoteA, RemoteC, Live, Staging} |->
            CASE s = RemoteA ->
                   (Afk :> [hostname |-> ha, origin |-> NoOrigin, events |-> <<>>])
                   @@ (Web :> [hostname |-> "C", origin |-> "C",
                               events |-> <<[id |-> 1, timestamp |-> 1,
                                             duration |-> 0, data |-> "a"]>>])
              [] s = RemoteC ->
                   (Mail :> [hostname |-> "C", origin |-> NoOrigin,
                             events |-> <<[id |-> 1, timestamp |-> 0,
                                           duration |-> 1, data |-> "b"]>>])
              [] s = Live ->
                   (Win :> [hostname |-> hw, origin |-> NoOrigin, events |-> <<>>])
              [] OTHER -> NoBuckets]
  /\ phase = "idle"
  /\ step = "select"
  /\ allow \in AllowLists
  /\ remotes = <<>>
  /\ queue = <<>>
  /\ bucketTo = <<>>
  /\ events = <<>>
  /\ passes = 0
  /\ appends = 0
  /\ created = {}
  /\ resolved = NoBuckets
  /\ run = [fresh |-> FALSE, resume |-> -1, before |-> <<>>, src |-> <<>>]
  /\ synced = NoBuckets
  /\ failed = FALSE
  /\ aborted = NoBuckets

Init == InitStores /\ dir = SyncDir

\* the source and the destination of the running sync_datastores call, its
\* is_push and its src_did, as sync_run passes them
DsFrom == IF phase = "pull" THEN Head(remotes) ELSE Live
\* DsTo with the destination taken to be the source store
DsToSource == DsFrom
DsTo == IF phase = "pull" THEN Live ELSE Staging
IsPush == phase = "push"
SrcDid == IF phase = "pull" THEN NoDid ELSE LocalDid

\* the buckets of the live and the staging store that another writer created
ForeignBuckets ==
  {k \in ({Live} \X DOMAIN store[Live]) \cup ({Staging} \X DOMAIN store[Staging]) :
     k \notin created /\ k # <<Live, Win>>}

\* the owner of a bucket appends an event to it (insert_events); a behaviour
\* follows the appends of one owner, and as payloads are only compared for
\* equality the first one appended is called "a"; a behaviour follows the
\* appends of the owners or the creates of another writer, not both
AppendEvent(s, id, e) ==
  /\ phase = "idle"
  /\ appends < MaxAppends
  /\ ForeignBuckets = {}
  /\ <<s, id>> \in Owned
  /\ \A k \in Owned \ {<<s, id>>} : store[k[1]][k[2]].events = <<>>
  /\ appends = 0 => e.data = "a"
  /\ store' = [store EXCEPT ![s][id].events = InsertEvent(@, e)]
  /\ appends' = appends + 1
  /\ UNCHANGED <<phase, step, allow, remotes, queue, bucketTo, events, passes,
                 created, resolved, run, synced, dir, failed, aborted>>

\* the start of sync_run, lines 44-53: setup_local_remote creates this
\* device's folder and store file in the sync directory
SyncRun ==
  /\ phase \in {"idle", "crashed"}
  /\ passes < MaxPasses
  /\ dir' = SetupLocalRemote(dir)
  /\ phase' = "discover"
  /\ step' = "select"
  /\ remotes' = <<>>
  /\ queue' = <<>>
  /\ bucketTo' = <<>>
  /\ events' = <<>>
  /\ passes' = passes + 1
  /\ failed' = FALSE
  /\ UNCHANGED <<store, allow, appends, created, resolved, run, synced, aborted>>

\* sync_run, lines 55-61: discovery of the remotes and their stores
Discovery ==
  /\ phase = "discover"
  /\ IF ExtensionPanics(dir)
       THEN /\ phase' = "crashed"
            /\ remotes' = remotes
       ELSE \E rem \in SetToSeqs({CreateDatastore(p) :
                                     p \in FindRemotesNonlocal(dir, LocalDid)}) :
              /\ remotes' = rem
              /\ phase' = IF rem = <<>> THEN "push" ELSE "pull"
  /\ UNCHANGED <<store, step, allow, queue, bucketTo, events, passes, appends,
                 created, resolved, run, synced, dir, failed, aborted>>

\* EndCall with list_buckets called after the pulls and the push after it
EndCallReportFirst ==
  /\ step' = "select"
  /\ IF phase = "pull"
       THEN /\ remotes' = Tail(remotes)
            /\ phase' = IF Tail(remotes) = <<>> THEN "report" ELSE "pull"
       ELSE /\ remotes' = remotes
            /\ phase' = "idle"

\* the return of sync_datastores into sync_run: the next remote, then the
\* push, then list_buckets
EndCall ==
  /\ step' = "select"
  /\ IF phase = "pull"
       THEN /\ remotes' = Tail(remotes)
            /\ phase' = IF Tail(remotes) = <<>> THEN "push" ELSE "pull"
       ELSE /\ remotes' = remotes
            /\ phase' = "report"

\* sync_datastores, lines 247-264: list, repair, filter and sort the buckets
SyncDatastores ==
  /\ phase \in {"pull", "push"}
  /\ step = "select"
  /\ LET bs == GetBuckets(store[DsFrom])
     IN IF RepairPanics(bs, SrcDid)
          THEN /\ phase' = "crashed"
               /\ UNCHANGED <<step, remotes, queue>>
          ELSE \E q \in SortedByEnd(BucketsFrom(bs, SrcDid, allow)) :
                 /\ queue' = q
                 /\ IF q = <<>>
                      THEN EndCall
                      ELSE /\ step' = "resolve"
                           /\ UNCHANGED <<phase, remotes>>
  /\ UNCHANGED <<store, allow, bucketTo, events, passes, appends, created,
                 resolved, run, synced, dir, failed, aborted>>

\* get_or_create_sync_bucket, line 213: the lookup of the destination bucket
GetBucket ==
  /\ phase \in {"pull", "push"}
  /\ step = "resolve"
  /\ LET b == Head(queue)
         id == NewId(b, IsPush)
         key == <<DsFrom, b.id>>
         found == id \in DOMAIN store[DsTo]
     IN /\ bucketTo' = id
        /\ step' = IF found THEN "merge" ELSE "create"
        /\ resolved' = IF ~found THEN resolved
                         ELSE IF key \in DOMAIN resolved
                           THEN [resolved EXCEPT ![key] = @ \cup {id}]
                           ELSE (key :> {id}) @@ resolved
        /\ run' = [fresh |-> FALSE, resume |-> -1, before |-> <<>>, src |-> <<>>]
  /\ UNCHANGED <<store, phase, allow, remotes, queue, events, passes, appends,
                 created, synced, dir, failed, aborted>>

\* another writer of the destination store (a second pass of this device, or
\* a client of the server) creates the bucket the pass has just looked up
\* and not found, between the lookup and the create of the pass
ForeignCreateBucket ==
  /\ phase \in {"pull", "push"}
  /\ step = "create"
  /\ appends = 0
  /\ bucketTo \notin DOMAIN store[DsTo]
  /\ store' = [store EXCEPT ![DsTo] = (bucketTo :> BucketNew(Head(queue))) @@ @]
  /\ UNCHANGED <<phase, step, allow, remotes, queue, bucketTo, events, passes,
                 appends, created, resolved, run, synced, dir, failed, aborted>>

\* get_or_create_sync_bucket, lines 215-224: create_bucket(..).unwrap().  The
\* store answers BucketAlreadyExists when the bucket is there, and the
\* unwrap panics on it.
CreateBucket ==
  /\ phase \in {"pull", "push"}
  /\ step = "create"
  /\ IF bucketTo \in DOMAIN store[DsTo]
       THEN /\ phase' = "crashed"
            /\ failed' = TRUE
            /\ UNCHANGED <<store, step, created, resolved, run>>
       ELSE LET key == <<DsFrom, Head(queue).id>>
            IN /\ store' = [store EXCEPT ![DsTo] =
                              (bucketTo :> BucketNew(Head(queue))) @@ @]
               /\ created' = created \cup {<<DsTo, bucketTo>>}
               /\ resolved' = IF key \in DOMAIN resolved
                                THEN [resolved EXCEPT ![key] = @ \cup {bucketTo}]
                                ELSE (key :> {bucketTo}) @@ resolved
               /\ run' = [fresh |-> TRUE, resume |-> -1, before |-> <<>>,
                          src |-> <<>>]
               /\ step' = "merge"
               /\ UNCHANGED <<phase, failed>>
  /\ UNCHANGED <<allow, remotes, queue, bucketTo, events, passes, appends,
                 synced, dir, aborted>>

\* sync_one, lines 279-304: the resume point and the events to replay
SyncOneFetch ==
  /\ phase \in {"pull", "push"}
  /\ step = "merge"
  /\ LET dest == store[DsTo][bucketTo].events
         src == store[DsFrom][Head(queue).id].events
         resume == ResumeSyncAt(dest)
     IN /\ events' = EventsToSync(src, resume)
        /\ run' = [run EXCEPT !.resume = resume, !.before = dest, !.src = src]
        /\ step' = IF events' = <<>> THEN "count" ELSE "insert"
  /\ UNCHANGED <<store, phase, allow, remotes, queue, bucketTo, passes, appends,
                 created, resolved, synced, dir, failed, aborted>>

\* sync_one, lines 308-311: one turn of the heartbeat loop
SyncOneHeartbeat ==
  /\ phase \in {"pull", "push"}
  /\ step = "insert"
  /\ store' = [store EXCEPT ![DsTo][bucketTo].events =
                 Heartbeat(@, Head(events), PulseWindow)]
  /\ events' = Tail(events)
  /\ step' = IF events' = <<>> THEN "count" ELSE "insert"
  /\ UNCHANGED <<phase, allow, remotes, queue, bucketTo, passes, appends,
                 created, resolved, run, synced, dir, failed, aborted>>

\* sync_one, lines 313-317, and the turn of the bucket loop of sync_datastores
SyncOneCount ==
  /\ phase \in {"pull", "push"}
  /\ step = "count"
  /\ LET key == <<DsFrom, Head(queue).id>>
     IN synced' = IF key \in DOMAIN synced
                    THEN [synced EXCEPT ![key] = run.src]
                    ELSE (key :> run.src) @@ synced
  /\ queue' = Tail(queue)
  /\ IF queue' = <<>>
       THEN EndCall
       ELSE /\ step' = "resolve"
            /\ UNCHANGED <<phase, remotes>>
  /\ UNCHANGED <<store, allow, bucketTo, events, passes, appends, created,
                 resolved, run, dir, failed, aborted>>

\* list_buckets, at the end of sync_run or called on its own between passes:
\* it runs setup_local_remote and find_remotes_nonlocal again and then only
\* reads the stores
ListBuckets ==
  /\ phase \in {"report", "idle"}
  /\ dir' = SetupLocalRemote(dir)
  /\ phase' = IF ExtensionPanics(dir') THEN "crashed" ELSE "idle"
  /\ UNCHANGED <<store, step, allow, remotes, queue, bucketTo, events, passes,
                 appends, created, resolved, run, synced, failed, aborted>>

Next ==
  \/ \E k \in Owned, e \in EventKinds : AppendEvent(k[1], k[2], e)
  \/ SyncRun
  \/ Discovery
  \/ SyncDatastores
  \/ GetBucket
  \/ ForeignCreateBucket
  \/ CreateBucket
  \/ SyncOneFetch
  \/ SyncOneHeartbeat
  \/ SyncOneCount
  \/ ListBuckets

Spec == Init /\ [][Next]_vars

\* ------------------------------------------------- passes with failing store calls
\* OnStoreError with the error dropped and the pass going on
OnStoreErrorIgnored(ph) == ph

\* every store call of a pass is followed by unwrap(): an Err panics, which
\* ends the pass where it stands
OnStoreError(ph) == "crashed"

\* the events the running sync_one fetched from the source bucket
Fetched == EventsToSync(run.src, run.resume)

\* a store call of the running pass returns an error: get_buckets at step
\* select, get_bucket at resolve, create_bucket at create, get_eventcount or
\* get_events at merge, heartbeat at insert, get_eventcount at count, and
\* get_buckets of list_buckets.  A behaviour follows one failure, in the
\* first pass, and the passes after it.
StoreCallFails ==
  /\ phase \in {"pull", "push", "report"}
  /\ passes = 1
  /\ ~failed
  /\ failed' = TRUE
  /\ phase' = OnStoreError(phase)
  /\ aborted' = IF phase # "report" /\ step = "insert" /\ Len(events) < Len(Fetched)
                  THEN (<<DsFrom, Head(queue).id>> :> Fetched) @@ aborted
                  ELSE aborted
  /\ UNCHANGED <<store, step, allow, remotes, queue, bucketTo, events, passes,
                 appends, created, resolved, run, synced, dir>>

\* device A fills its bucket before the first pass; the first pass may fail
\* at any store call
NextFail ==
  \/ \E e \in EventKinds : passes = 0 /\ AppendEvent(RemoteA, Afk, e)
  \/ SyncRun
  \/ Discovery
  \/ SyncDatastores
  \/ GetBucket
  \/ ForeignCreateBucket
  \/ CreateBucket
  \/ SyncOneFetch
  \/ SyncOneHeartbeat
  \/ SyncOneCount
  \/ ListBuckets
  \/ StoreCallFails

\* the passes with failing store calls are followed for the widest
\* allow-list and for source buckets whose hostname is known
InitFail ==
  /\ Init
  /\ allow = {Afk, Web, Mail, Win, <<"afk", SF, "A">>}
  /\ \A s \in DOMAIN store : \A id \in DOMAIN store[s] :
       store[s][id].hostname # Unknown

SpecFail == InitFail /\ [][NextFail]_vars

\* ----------------------------------------- discovery over sync directory layouts
\* the files a sync directory may hold: the stores of the devices A, C and
\* B2, this device's store from an earlier pass, a text file and a file
\* without extension in device A's folder, and a store file that lies in the
\* sync directory itself
DiscoveryFiles ==
  {RemoteA, RemoteC, Staging,
   <<<<LocalDid, "2">>, <<"test">>, <<"db">>>>,
   <<<<"A">>, <<"notes">>, <<"txt">>>>,
   <<<<"A">>, <<"README">>, <<>>>>,
   <<<<>>, <<"stray">>, <<"db">>>>}

InitDiscovery == InitStores /\ dir \in SUBSET DiscoveryFiles

\* sync_run up to the end of discovery, and list_buckets on its own
NextDiscovery == SyncRun \/ Discovery \/ ListBuckets

SpecDiscovery == InitDiscovery /\ [][NextDiscovery]_vars

\* ------------------------------------------------------------------ properties
\* the running sync_one: its source bucket, its destination events
SrcKey == <<DsFrom, Head(queue).id>>
SrcEvents == store[DsFrom][Head(queue).id].events
DestEvents == store[DsTo][bucketTo].events
RunDone == phase \in {"pull", "push"} /\ step = "count"

\* the events the running sync_one has inserted so far
Inserted == SubSeq(DestEvents, Len(run.before) + 1, Len(DestEvents))

\* some event of evs has the timestamp, duration and data of e
HasMatch(evs, e) == \E i \in 1..Len(evs) : Content(evs[i]) = Content(e)

\* the number of events of evs with content c
CountOf(evs, c) == Cardinality({i \in 1..Len(evs) : Content(evs[i]) = c})

\* the run repeats a completed run of the same source bucket, and the source
\* has gained no event since
RepeatedRun == RunDone /\ SrcKey \in DOMAIN synced /\ synced[SrcKey] = run.src

\* the most recent destination event when the run started
NewestBefore == GetEvents(run.before, -1, 1)[1]

\* C1 as stated: a repeated pull of a source bucket that gained no events
\* leaves the event count of the destination bucket unchanged.
C1_PullIdempotent ==
  (RepeatedRun /\ phase = "pull") => Len(DestEvents) = Len(run.before)

\* C1 amended: a repeated pull of a source bucket that gained no events
\* leaves the count unchanged when the most recent destination event has a
\* positive duration; otherwise every event it inserts has the timestamp of
\* that most recent event, the resume point.
C1_PullIdempotentUnlessBoundary ==
  (RepeatedRun /\ phase = "pull") =>
     IF run.before = <<>> \/ NewestBefore.duration > 0
       THEN Len(DestEvents) = Len(run.before)
       ELSE \A i \in 1..Len(Inserted) :
              Inserted[i].timestamp = NewestBefore.timestamp

C1_Witness ==
  /\ RepeatedRun /\ phase = "pull"
  /\ run.before # <<>>
  /\ NewestBefore.duration > 0
  /\ Len(run.src) = 2

\* C2: when a single-bucket merge run completes, every source event at or
\* after the resume point of the run has a destination event with the same
\* timestamp, duration and data.
C2_NoGapAboveResume ==
  RunDone =>
    \A i \in 1..Len(SrcEvents) :
      SrcEvents[i].timestamp >= run.resume => HasMatch(DestEvents, SrcEvents[i])

C2_Witness ==
  /\ RunDone
  /\ run.resume >= 0
  /\ Len(Inserted) >= 1
  /\ \E i \in 1..Len(SrcEvents) : SrcEvents[i].timestamp < run.resume

RECURSIVE Duplicates(_, _)
\* the number of events of ins that can be paired, each with an event of held
\* of its own, of the same timestamp, duration and data
Duplicates(ins, held) ==
  IF ins = <<>> THEN 0
  ELSE LET at == {i \in 1..Len(held) : Content(held[i]) = Content(Head(ins))}
       IN IF at = {}
            THEN Duplicates(Tail(ins), held)
            ELSE 1 + Duplicates(Tail(ins),
                                SubSeq(held, 1, Min(at) - 1)
                                  \o SubSeq(held, Min(at) + 1, Len(held)))

\* C3 as stated: in a merge run at most one inserted event matches an event
\* the destination held before the run, and a repeated pass over an unchanged
\* source raises the destination count by at most 1.
C3_AtMostOneBoundaryDuplicate ==
  /\ RunDone => Duplicates(Inserted, run.before) <= 1
  /\ RepeatedRun => Len(DestEvents) - Len(run.before) <= 1

\* C4 as stated: whenever a merge run completes, every event of the source
\* bucket has a matching event in the destination bucket.
C4_NoDataLoss ==
  RunDone =>
    \A i \in 1..Len(SrcEvents) : HasMatch(DestEvents, SrcEvents[i])

\* the number of "-synced-from-" in an id
SuffixCount(id) == Cardinality({i \in 1..Len(id) : id[i] = SF})

\* d is the part of src before its first "-synced-from-", followed by
\* "-synced-from-" and the origin o
IsBasePlusOrigin(d, src, o) ==
  \E n \in 0..Len(src) :
    /\ \A i \in 1..n : src[i] # SF
    /\ n = Len(src) \/ src[n + 1] = SF
    /\ d = SubSeq(src, 1, n) \o <<SF, o>>

\* C5: every pull of a source bucket resolves to one destination bucket, whose
\* id is the base id of the source followed by one "-synced-from-<origin>";
\* no bucket id of the live store carries a second suffix.
C5_StableDestinationId ==
  /\ \A id \in DOMAIN store[Live] : SuffixCount(id) <= 1
  /\ \A key \in DOMAIN resolved :
       key[1] # Live =>
         LET b == store[key[1]][key[2]]
             o == IF b.origin # NoOrigin THEN b.origin ELSE b.hostname
         IN /\ Cardinality(resolved[key]) = 1
            /\ \A d \in resolved[key] :
                 SuffixCount(d) = 1 /\ IsBasePlusOrigin(d, key[2], o)

C5_Witness ==
  /\ phase = "report"
  /\ passes = 2
  /\ <<RemoteA, Web>> \in DOMAIN resolved
  /\ <<RemoteA, Afk>> \in DOMAIN resolved
  /\ Len(store[Live][Web].events) >= 2

\* the buckets of store d that a step created or changed
Touched(d, old, new) ==
  {id \in DOMAIN new[d] : id \notin DOMAIN old[d] \/ new[d][id] # old[d][id]}

\* a step that leaves every destination bucket alone but those the allow-list
\* names through a source bucket
C6_Step ==
  phase \in {"pull", "push"} =>
    /\ allow = {} => store' = store
    /\ \A id \in Touched(DsTo, store, store') :
         \E b \in GetBuckets(store[DsFrom]) :
           /\ b.id \in allow
           /\ id = NewId(RepairHostname(b, SrcDid), IsPush)

\* C6: a step of sync_datastores creates or changes a destination bucket only
\* for a source bucket of the allow-list, and changes nothing when the
\* allow-list is empty.
C6_AllowListExclusion == [][C6_Step]_vars

C6_Witness ==
  /\ phase = "report"
  /\ allow = {Afk}
  /\ <<"afk", SF, "A">> \in DOMAIN store[Live]
  /\ Web \notin DOMAIN store[Live]
  /\ Win \notin DOMAIN store[Staging]

\* C7 as stated: a pass that pulls a remote bucket with hostname "unknown"
\* completes the pull, and the destination bucket names the source device.
C7_HostnameRepairOnPull ==
  /\ (phase = "crashed" /\ ~failed /\ remotes # <<>>) =>
       \A b \in GetBuckets(store[Head(remotes)]) : b.hostname # Unknown
  /\ \A c \in created :
       c[1] = Live => store[Live][c[2]].origin \notin {Unknown, NoOrigin}

\* C8: every bucket the engine created carries a sync origin, and it is never
\* "unknown".
C8_ProvenanceNeverUnknown ==
  \A c \in created : store[c[1]][c[2]].origin \notin {Unknown, NoOrigin}

C8_Witness ==
  /\ <<Staging, Win>> \in created
  /\ store[Live][Win].hostname = Unknown
  /\ \E c \in created : c[1] = Live

\* C9: a merge run into a destination bucket created for it leaves that
\* bucket with exactly the events of the source bucket, and no event handed
\* to the destination carries an id of the source store.
C9_ExactFirstCopy ==
  /\ \A i \in 1..Len(events) : events[i].id = 0
  /\ (RunDone /\ run.fresh) =>
       /\ Len(DestEvents) = Len(SrcEvents)
       /\ \A i \in 1..Len(SrcEvents) :
            CountOf(DestEvents, Content(SrcEvents[i]))
              = CountOf(SrcEvents, Content(SrcEvents[i]))
       /\ \A i \in 1..Len(DestEvents) : DestEvents[i].id = i

C9_Witness ==
  /\ RunDone /\ run.fresh
  /\ Len(SrcEvents) = 2
  /\ SrcEvents[1].timestamp > SrcEvents[2].timestamp

\* C10: every staging bucket has the id of a live bucket, a push resolves a
\* live bucket to the staging bucket of the same id only, and after a push
\* every allow-listed live bucket has its staging bucket.
C10_PushMirrorsIds ==
  /\ \A id \in DOMAIN store[Staging] : id \in DOMAIN store[Live]
  /\ \A key \in DOMAIN resolved : key[1] = Live => resolved[key] = {key[2]}
  /\ phase = "report" =>
       \A id \in allow \cap DOMAIN store[Live] : id \in DOMAIN store[Staging]

C10_Witness ==
  /\ phase = "report"
  /\ Win \in DOMAIN store[Staging]
  /\ <<"afk", SF, "A">> \in DOMAIN store[Staging]

\* the step keeps every bucket of every store, with its record, and keeps
\* every event of it in place: the events it had are a prefix of those it has
C11_Step ==
  \A s \in DOMAIN store : \A id \in DOMAIN store[s] :
    /\ id \in DOMAIN store'[s]
    /\ store'[s][id].hostname = store[s][id].hostname
    /\ store'[s][id].origin = store[s][id].origin
    /\ Len(store'[s][id].events) >= Len(store[s][id].events)
    /\ SubSeq(store'[s][id].events, 1, Len(store[s][id].events))
         = store[s][id].events

\* C11: merges are append-only.  Across any sequence of passes no step
\* removes a bucket or an event from a store, and none overwrites the record
\* of an existing bucket or an existing event; a destination bucket that
\* already exists is used as it is found.
C11_AppendOnly == [][C11_Step]_vars

\* a run into a destination bucket that existed and held events has
\* inserted further events into it
C11_Witness ==
  /\ RunDone
  /\ ~run.fresh
  /\ run.before # <<>>
  /\ Len(Inserted) >= 1

\* a step of a pull changes no store but the live store, a step of a push no
\* store but the staging store
C12_Step ==
  /\ phase = "pull" => \A s \in DOMAIN store \ {Live} : store'[s] = store[s]
  /\ phase = "push" => \A s \in DOMAIN store \ {Staging} : store'[s] = store[s]

\* C12: one store is mutated per direction.  Every step of a pull leaves the
\* remote source store unchanged and changes only the live store; every step
\* of a push leaves the live store unchanged, also when it repairs the
\* hostname of a source bucket, and changes only the staging store.
C12_SingleMutatedStore == [][C12_Step]_vars

\* a push has repaired the hostname of the live bucket in its copy, created
\* the staging bucket and inserted events into it, after a pull into the
\* live store
C12_Witness ==
  /\ phase = "push"
  /\ step = "count"
  /\ Head(queue).id = Win
  /\ store[Live][Win].hostname = Unknown
  /\ store[Staging][Win].hostname = LocalDid
  /\ Len(Inserted) >= 1
  /\ \E c \in created : c[1] = Live

\* a step of one sync_datastores call: a bucket is resolved only when no
\* event of an earlier merge is left to insert and no bucket still to come
\* has an earlier metadata end; the list of buckets to come changes only by
\* being built, by losing its head when the head's merge is complete, or by
\* the start of a new pass; and a resolution starts only from the building
\* of the list or from the completion of a merge
C13_Step ==
  /\ (step = "resolve" /\ step' \in {"create", "merge"}) =>
        /\ events = <<>>
        /\ \A i \in 1..Len(queue) : queue[1].end <= queue[i].end
        /\ queue' = queue
  /\ (phase \in {"pull", "push"} /\ step = "create" /\ step' # "create") =>
        step' = "merge" /\ queue' = queue
  /\ queue' # queue =>
        \/ step = "select"
        \/ step = "count" /\ queue' = Tail(queue)
        \/ phase' = "discover" /\ queue' = <<>>
  /\ (step' = "resolve" /\ step # "resolve") =>
        \/ step = "select"
        \/ step = "count" /\ events = <<>> /\ queue' = Tail(queue)

\* C13: buckets are visited in order.  Within one call of sync_datastores
\* the retained buckets are resolved and merged one at a time in
\* non-decreasing order of the source bucket's metadata end, and the merge
\* of a bucket is finished before the resolution of the next one starts.
C13_BucketsInOrder == [][C13_Step]_vars

\* the merge of the bucket with the earlier end is complete while a bucket
\* with a later end is still to come
C13_Witness ==
  /\ RunDone
  /\ Len(queue) = 2
  /\ queue[1].end < queue[2].end
  /\ Len(Inserted) >= 1

\* the first step of a sync_datastores call of a pull (no source device id):
\* it fails exactly when a bucket of the source store has the hostname
\* "unknown", and a failing step changes no store
C20_Step ==
  (phase = "pull" /\ step = "select"
     /\ (phase' # phase \/ step' # step \/ remotes' # remotes)) =>
    /\ phase' = "crashed" <=>
         \E id \in DOMAIN store[Head(remotes)] :
            store[Head(remotes)][id].hostname = Unknown
    /\ phase' = "crashed" => store' = store /\ created' = created

\* C20: the hostname repair precedes the allow-list filter.  A call of
\* sync_datastores without a source device id fails exactly when some bucket
\* of the source store has the hostname "unknown", on the allow-list or not;
\* when it fails so, the call has created no destination bucket and
\* inserted no event.
C20_RepairBeforeFilter == [][C20_Step]_vars

\* the pull of device A's store has failed on a bucket with hostname
\* "unknown" that the empty allow-list does not retain, and the live store
\* holds what it held before the pass
C20_Witness ==
  /\ phase = "crashed"
  /\ ~failed
  /\ allow = {}
  /\ Head(remotes) = RemoteA
  /\ store[RemoteA][Afk].hostname = Unknown
  /\ DOMAIN store[Live] = {Win}

\* the destination store of the pass that failed: remotes are left to pull
\* exactly while the pass pulls
FailedDsTo == IF remotes # <<>> THEN Live ELSE Staging

\* a merge has failed in its heartbeat loop: the destination bucket holds
\* what it held before the merge followed by the events inserted before the
\* failure, in the order fetched, and the event whose heartbeat failed and
\* those behind it are not in it
C16_State ==
  (failed /\ step = "insert") =>
    LET dest == store[FailedDsTo][bucketTo].events
        k == Len(Fetched) - Len(events)
    IN /\ events # <<>>
       /\ events = SubSeq(Fetched, k + 1, Len(Fetched))
       /\ Len(dest) = Len(run.before) + k
       /\ SubSeq(dest, 1, Len(run.before)) = run.before
       /\ \A i \in 1..k :
            Content(dest[Len(run.before) + i]) = Content(Fetched[i])

\* after the failure no step of the pass changes a store or takes an event
\* off the list still to insert
C16_Step == (failed /\ failed') => store' = store /\ events' = events

\* C16: a partial merge is kept on failure.  If a store call fails during
\* the merge of one bucket after some events were inserted, the merge stops
\* there: the events inserted before the failure stay in the destination,
\* nothing is rolled back, and the failed call is not made again.
C16_PartialMergeKept == []C16_State /\ [][C16_Step]_vars

\* a heartbeat has failed after some of the fetched events were inserted and
\* before all were
C16_Witness ==
  /\ failed
  /\ step = "insert"
  /\ Len(events) >= 1
  /\ Len(events) < Len(Fetched)

\* a pass in which a store call has failed stands still: its position, its
\* lists and the stores stay as they are until a new pass starts
C17_Step ==
  phase = "crashed" =>
    \/ phase' = "crashed"
         /\ UNCHANGED <<store, step, remotes, queue, bucketTo, events, dir>>
    \/ phase' = "discover" /\ passes' = passes + 1

\* C17: a pass is fatal on its first failure.  Once a store call has failed
\* the pass makes no further store call: it merges no later bucket of the
\* same remote, pulls no later remote and does not push.
C17_FatalOnFirstFailure == [](failed => phase = "crashed") /\ [][C17_Step]_vars

\* a store call has failed in the pull of the first of two remotes with a
\* further bucket of that remote still to merge; nothing was pushed
C17_Witness ==
  /\ failed
  /\ phase = "crashed"
  /\ Len(remotes) = 2
  /\ Len(queue) = 2
  /\ store[Staging] = NoBuckets

\* C18: a merge can be resumed after it was aborted.  If a merge aborts
\* after it inserted some but not all of the events it fetched, then when a
\* later merge of the same bucket is complete the destination holds an
\* event with the timestamp, duration and data of every source event the
\* aborted merge had fetched.
C18_ResumableAfterAbort ==
  (RunDone /\ SrcKey \in DOMAIN aborted) =>
    \A i \in 1..Len(aborted[SrcKey]) : HasMatch(DestEvents, aborted[SrcKey][i])

\* the order in which a pass may move from phase to phase
PhaseOrder ==
  {<<"idle", "discover">>, <<"crashed", "discover">>, <<"discover", "pull">>,
   <<"discover", "push">>, <<"discover", "crashed">>, <<"pull", "push">>,
   <<"pull", "crashed">>, <<"push", "report">>, <<"push", "crashed">>,
   <<"report", "idle">>, <<"report", "crashed">>}

\* a step of a pass: the phases follow each other in the order of sync_run;
\* the pull leaves a remote only when its call has no bucket left; the live
\* store is changed by the pass only during the pull and the staging store
\* only during the push; and the report starts only when the push has no
\* bucket and no event left
C19_Step ==
  /\ phase' # phase => <<phase, phase'>> \in PhaseOrder
  /\ (phase = "pull" /\ remotes' # remotes) =>
        /\ remotes' = Tail(remotes)
        /\ queue' = <<>>
        /\ events = <<>>
  /\ store'[Live] # store[Live] => phase \in {"idle", "pull"}
  /\ store'[Staging] # store[Staging] => phase = "push"
  /\ (phase' = "report" /\ phase # "report") =>
        phase = "push" /\ queue' = <<>> /\ events = <<>>

\* C19: the phases of a pass are strictly ordered.  The staging store is
\* set up before the remotes are discovered, the remotes are pulled one at a
\* time, every change a pull makes to the live store comes before the first
\* change the push makes to the staging store, and the report runs only
\* after the push is finished.
C19_PhasesOrdered ==
  [](phase = "discover" => Staging \in dir) /\ [][C19_Step]_vars

\* the report of a pass that set up the staging store, pulled two remotes
\* into the live store and pushed into the staging store
C19_Witness ==
  /\ phase = "report"
  /\ passes = 1
  /\ Staging \in dir
  /\ \E c \in created : c[1] = Live /\ c[2][Len(c[2])] = "A"
  /\ \E c \in created : c[1] = Live /\ c[2][Len(c[2])] = "C"
  /\ \E c \in created : c[1] = Staging

\* C14: BucketAlreadyExists is recoverable.  Whenever a create_bucket call
\* of a pass is answered with BucketAlreadyExists, because the bucket
\* appeared between the lookup and the create, the pass takes the bucket as
\* already initialised and goes on with it: no pass ends at a create.
C14_AlreadyExistsRecoverable == ~(phase = "crashed" /\ step = "create")

\* the store files of other devices: files with the extension "db" in a
\* subfolder that is not this device's
OtherDeviceStores ==
  {p \in dir : p[1] # <<>> /\ p[1] # <<LocalDid>> /\ p[3] = <<"db">>}

\* C15: remote discovery returns exactly the other devices' store files.
\* For any layout of the sync directory, discovery ends with a set of
\* remotes that does not contain this device's own staging store and
\* contains every store file that lies in another device's subfolder, and
\* discovery does not end the pass while another device's store is there.
C15_DiscoversExactlyOthers ==
  /\ phase \in {"pull", "push"} =>
       /\ \A i \in 1..Len(remotes) : remotes[i] # Staging
       /\ \A p \in OtherDeviceStores : \E i \in 1..Len(remotes) : remotes[i] = p
  /\ phase = "crashed" => OtherDeviceStores = {}

====
